---------------------------- MODULE Spec2Model ----------------------------
(***************************************************************************)
(* Hotel Content Creator: the batch runner of App.tsx (runBatchTasks,      *)
(* handleProcessFile, handlePause, handleResume, handleAbort), the         *)
(* controls of BatchUploadForm that decide which handler can be called,    *)
(* and the content generation client generateHotelContent.                 *)
(*                                                                         *)
(* JavaScript runs each stretch of code between two awaits atomically, so  *)
(* one action is one such stretch: the click that starts handleProcessFile *)
(* up to its first await, the continuation after the file has been read    *)
(* (which enters runBatchTasks and runs it up to its first await), the     *)
(* wake-up of the 200 ms pause poll, and the continuation after a          *)
(* generation call has settled.  React state set inside one stretch is     *)
(* shown with its last value.                                              *)
(***************************************************************************)
EXTENDS Integers, Sequences, FiniteSets, TLC

\* ------------------------------------------------------------- bounds
MaxSubmissions == 2   \* file submissions in one behaviour
MaxRows        == 2   \* data rows of a submitted sheet
MaxRateLimits  == 1   \* 429 answers the provider gives for one task
MaxColumns     == 3   \* columns of a sheet used for the header resolution
MaxPieces      == 3   \* text pieces of a provider error message

Null == "null"
\* No message: the value of an absent error key and of a null error state.
NoMessage == << >>

\* ------------------------------------------------------------ messages
\* A message is a sequence of text pieces; String.prototype.includes is the
\* search for a contiguous run of pieces.
Includes(msg, part) ==
  \E i \in 0..(Len(msg) - Len(part)) : SubSeq(msg, i + 1, i + Len(part)) = part

\* A variant of the text the batch loop looks for, in another letter case.
RateLimitNeedleCapitalised == <<"API Rate Limit Exceeded">>

\* errorMessage.includes("API rate limit exceeded")
RateLimitNeedle == <<"API rate limit exceeded">>
RateLimitMessage == <<"API rate limit exceeded", ". Please try again later.">>
GenerationFailedMessage ==
  <<"Failed to generate hotel content", ". The model might not have found the requested hotel or an API error occurred.">>
EmptyResponseMessage == <<"Received an empty response from the API", ".">>
\* JSON.parse's SyntaxError: its message quotes the place or the text of the
\* error (detail), as the engine words it.
JsonParseMessage(detail) == <<"Unexpected token in JSON: ">> \o detail
RateLimitNotice ==
  "Processing paused due to API rate limit. Please wait a moment and then resume."

\* ------------------------------------------------------------- records
\* HotelData: the eleven keys and their types.
Fields ==
  {"Eingabe_Land", "Eingabe_Hotelname", "GIATA_Code", "Adresse_Strasse", "PLZ",
   "Ort", "Telefon", "Latitude", "Longitude", "Beschreibung_DE", "Beschreibung_FR"}
NumberFields == {"Latitude", "Longitude"}
TypeOf(f) == IF f \in NumberFields THEN "number" ELSE "string"

\* A JavaScript value where a record is expected: null, or an object given by
\* the type of the value under each of its keys.
NoRecord == [type |-> "null"]
CompleteRecord == [type |-> "object", fields |-> [f \in Fields |-> TypeOf(f)]]
WithoutField(g) ==
  [type |-> "object", fields |-> [f \in Fields \ {g} |-> TypeOf(f)]]
Mistyped(g) ==
  [type |-> "object",
   fields |-> [f \in Fields |->
                 IF f = g THEN (IF TypeOf(f) = "number" THEN "string" ELSE "number")
                 ELSE TypeOf(f)]]

\* What a well-formed JSON text can parse to.
JsonValues ==
  {CompleteRecord, NoRecord}
  \cup {WithoutField(g) : g \in Fields} \cup {Mistyped(g) : g \in Fields}
\* The values of the keys of a record and of the cells of an exported row: a
\* string is a sequence of characters (or of longer pieces that are never
\* split), a number is an integer.
Str(t) == [type |-> "string", text |-> t]
Num(n) == [type |-> "number", num |-> n]
Undefined == [type |-> "undefined"]

\* A complete record with its values: latitude lat, postal code plz and town
\* ort; the street is S, the longitude 8, and the other strings name their key.
HotelRecord(lat, plz, ort) ==
  [type   |-> "object",
   fields |-> [f \in Fields |-> TypeOf(f)],
   values |-> [f \in Fields |->
                 CASE f = "Latitude"        -> Num(lat)
                   [] f = "Longitude"       -> Num(8)
                   [] f = "Adresse_Strasse" -> Str(<<"S">>)
                   [] f = "PLZ"             -> Str(plz)
                   [] f = "Ort"             -> Str(ort)
                   [] OTHER                 -> Str(<<f>>)]]

\* Records on and off the equator, with a space in the postal code or in the
\* name of the town.
HotelRecords ==
  {HotelRecord(lat, a[1], a[2]) :
     lat \in {0, 47},
     a \in {<<(<<"1">>), (<<"2", " ", "O">>)>>, <<(<<"1", " ", "2">>), (<<"O">>)>>}}

\* ------------------------------------------------------------ provider
\* The texts a provider error (or a syntax error) can carry: any characters,
\* the digits of a status code among them.
ErrorPieces == {"4", "2", "9", "x"}
ErrorMessages == UNION {[1..n -> ErrorPieces] : n \in 0..MaxPieces}

\* What the provider does with one request: it answers with a text that is
\* well-formed JSON for some value, with a text that is no JSON, or with no
\* text; or it rejects the request with an error, which is a quota/rate error
\* (status 429, RESOURCE_EXHAUSTED) or another one.
\* One answer of each kind the batch loop tells apart.
ProviderAnswers ==
  { [kind |-> "text", wellFormed |-> TRUE, value |-> CompleteRecord],
    [kind |-> "text", wellFormed |-> FALSE, detail |-> <<"x">>],
    [kind |-> "notext"],
    [kind |-> "error", quota |-> TRUE,
     message |-> <<"4", "2", "9", " Too Many Requests">>],
    [kind |-> "error", quota |-> FALSE,
     message |-> <<"5", "0", "3", " Service Unavailable">>] }

\* The answers used for the export: a record of HotelRecords, or an error.
ExportAnswers ==
  {[kind |-> "text", wellFormed |-> TRUE, value |-> v] : v \in HotelRecords}
  \cup {a \in ProviderAnswers : a.kind = "error"}

\* The JSON text null.
NullTextAnswer == [kind |-> "text", wellFormed |-> TRUE, value |-> NoRecord]

\* Every answer, within the bounds.
ClientAnswers ==
  ProviderAnswers
  \cup {[kind |-> "text", wellFormed |-> TRUE, value |-> v] : v \in JsonValues}
  \cup {[kind |-> "text", wellFormed |-> FALSE, detail |-> d] : d \in ErrorMessages}
  \cup {[kind |-> "error", quota |-> q, message |-> m] :
          q \in BOOLEAN, m \in ErrorMessages}

\* The error caught by the catch block of generateHotelContent.
CaughtMessage(a) ==
  IF a.kind = "error" THEN a.message
  ELSE IF a.kind = "notext" THEN EmptyResponseMessage
  ELSE JsonParseMessage(a.detail)

\* generateHotelContent: the settled promise, [ok, data] or [ok, message].
\* `return jsonData as HotelData` returns whatever the text parsed to.
generateHotelContent(a) ==
  IF a.kind = "text" /\ a.wellFormed
    THEN [ok |-> TRUE, data |-> a.value]
    ELSE IF Includes(CaughtMessage(a), <<"4", "2", "9">>)
           THEN [ok |-> FALSE, message |-> RateLimitMessage]
           ELSE [ok |-> FALSE, message |-> GenerationFailedMessage]

\* A variant of the client that sends the request once more after a quota
\* rejection before it gives up.
RequestsSentRetrying(a) == IF a.kind = "error" /\ a.quota THEN 2 ELSE 1

\* The requests one call of generateHotelContent sends to the provider when
\* the provider's answer to the first is a: the try block holds the only
\* ai.models.generateContent call, and the catch block throws.
RequestsSent(a) == 1

\* How a call of generateHotelContent ended, as the client classifies it.
Outcome(r) ==
  IF r.ok THEN "success"
  ELSE IF r.message = RateLimitMessage THEN "rateLimited" ELSE "failed"

\* ------------------------------------------------------------ GIATA lookup
\* A cell of the sheet that holds the number 0: XLSX gives the number, and
\* String(0).trim() is "0".
NumberZero == "0 (a number)"

\* if (value) for a text of the form or a cell of the sheet
Truthy(v) == v \notin {"", NumberZero}

\* fetchGiataCode, the mock: a six-digit code drawn at random (the model
\* keeps no digits, no step depends on them), or null.
fetchGiataCode(hotelName, country) ==
  IF Truthy(hotelName) /\ Truthy(country) THEN "a six-digit code" ELSE Null

GiataNotFoundMessage == <<"GIATA code not found.">>
GiataNotFoundFor(hotelName) ==
  <<"Could not find a GIATA code for \"", hotelName,
    "\". Please check the hotel details.">>

\* ------------------------------------------------------ spreadsheet input
\* XLSX.read and sheet_to_json are library code: a file is given by what they
\* return for it.  sheets says whether the workbook has no sheet, only sheets
\* without a '!ref' range, or a data sheet; headers are the keys of a row
\* object in column order; rows are the row objects (header -> cell).
HeaderRows ==
  { <<" HOTEL ", "land">>,
    <<"Country", "Name">>,
    <<"Hotel">>,
    << >> }

\* The header texts of the sheets used for the resolution of the column
\* roles: every alias, in several letter cases and paddings, and a text that
\* is no alias.
HeaderTexts ==
  {"Country", "Land", " LAND ", "Hotel Name", "Hotelname", " HOTEL ",
   "hotel NAME ", "City", "Stadt", " ort ", "Name"}

\* h.toLowerCase().trim() on the header texts of HeaderRows and HeaderTexts.
LowerTrim(h) ==
  CASE h = "Country"     -> "country"
    [] h = "land"        -> "land"
    [] h = "Land"        -> "land"
    [] h = " LAND "      -> "land"
    [] h = " HOTEL "     -> "hotel"
    [] h = "Hotel"       -> "hotel"
    [] h = "Hotel Name"  -> "hotel name"
    [] h = "hotel NAME " -> "hotel name"
    [] h = "Hotelname"   -> "hotelname"
    [] h = "City"        -> "city"
    [] h = "Stadt"       -> "stadt"
    [] h = " ort "       -> "ort"
    [] h = "Name"        -> "name"
    [] OTHER             -> h

\* String(v).trim() on the cell texts used below.
Trim(v) == IF v = " " THEN "" ELSE v

CellsOf(h) ==
  CASE LowerTrim(h) \in {"country", "land"} -> {" ", "CH"}
    [] OTHER                                 -> {"", "Hotel A"}

SetOf(seq) == {seq[i] : i \in 1..Len(seq)}

RowsOf(headers) ==
  LET H == SetOf(headers)
      R == {r \in [H -> {"", " ", "CH", "Hotel A"}] :
              \A h \in H : r[h] \in CellsOf(h)}
  IN  UNION {[1..n -> R] : n \in 0..MaxRows}

Files ==
  {[sheets |-> "none", headers |-> << >>, rows |-> << >>],
   [sheets |-> "noref", headers |-> << >>, rows |-> << >>]}
  \cup UNION {{[sheets |-> "data", headers |-> hs, rows |-> rs] : rs \in RowsOf(hs)} :
                hs \in HeaderRows}

\* Sheets with up to MaxColumns distinct headers out of HeaderTexts and one
\* data row, whose cell in column k is the k-th text of ColumnCells.
ColumnCells == <<"A2", "B2", "C2", "D2", "E2">>

HeaderSheets ==
  LET Distinct == {hs \in UNION {[1..n -> HeaderTexts] : n \in 1..MaxColumns} :
                     \A i, j \in 1..Len(hs) : i # j => hs[i] # hs[j]}
      RowOf(hs) == [h \in SetOf(hs) |->
                      ColumnCells[CHOOSE k \in 1..Len(hs) : hs[k] = h]]
  IN  {[sheets |-> "data", headers |-> hs, rows |-> <<RowOf(hs)>>] : hs \in Distinct}

\* Sheets with the columns Country and Hotel and up to MaxRows + 1 rows, at
\* most MaxRows of them with both cells non-blank; the full rows differ in the
\* hotel name.
RowSheets ==
  LET hs == <<"Country", "Hotel">>
      R  == {r \in [SetOf(hs) -> {"", " ", "CH", "Hotel A", "Hotel B"}] :
               r["Country"] \in {" ", "CH"} /\ r["Hotel"] \in {"", "Hotel A", "Hotel B"}}
      Full(rs) == {i \in 1..Len(rs) : rs[i]["Country"] = "CH" /\ rs[i]["Hotel"] # ""}
  IN  {[sheets |-> "data", headers |-> hs, rows |-> rs] :
         rs \in {x \in UNION {[1..n -> R] : n \in 0..(MaxRows + 1)} :
                   Cardinality(Full(x)) <= MaxRows}}

\* Sheets with the columns Country and Hotel and a third column, named like
\* a column the export appends or not, and up to MaxRows equal rows.
ExportSheets ==
  {[sheets |-> "data", headers |-> <<"Country", "Hotel", x>>,
    rows |-> [i \in 1..n |-> [h \in {"Country", "Hotel", x} |->
                                CASE h = "Country" -> "CH"
                                  [] h = "Hotel"   -> "Hotel A"
                                  [] OTHER         -> "as typed"]]] :
     x \in {"Status", "Phone", "Notes"}, n \in 1..MaxRows}

\* Sheets with the columns Country and Hotel and up to MaxRows rows, whose
\* hotel cell is a name or the number 0.
LookupSheets ==
  {[sheets |-> "data", headers |-> <<"Country", "Hotel">>, rows |-> rs] :
     rs \in UNION {[1..n -> {[h \in {"Country", "Hotel"} |->
                               IF h = "Country" THEN "CH" ELSE x] :
                              x \in {"Hotel A", NumberZero}}] : n \in 1..MaxRows}}

Min(S) == CHOOSE x \in S : \A y \in S : x <= y

\* A variant that compares the header texts as they are written.
FindInVerbatim(headers, name) ==
  LET I == {i \in 1..Len(headers) : headers[i] = name}
  IN  IF I = {} THEN Null ELSE headers[Min(I)]

\* headers.find(h => h.toLowerCase().trim() === name)
FindIn(headers, name) ==
  LET I == {i \in 1..Len(headers) : LowerTrim(headers[i]) = name}
  IN  IF I = {} THEN Null ELSE headers[Min(I)]

findHeader(headers, possibleNames) ==
  LET J == {j \in 1..Len(possibleNames) : FindIn(headers, possibleNames[j]) # Null}
  IN  IF J = {} THEN Null ELSE FindIn(headers, possibleNames[Min(J)])

countryHeader(f) == findHeader(f.headers, <<"country", "land">>)
hotelHeader(f)   == findHeader(f.headers, <<"hotel name", "hotelname", "hotel">>)
cityHeader(f)    == findHeader(f.headers, <<"city", "stadt", "ort">>)

\* json.map(row => ({country, hotelName, city, originalData: row}))
TaskOf(f, i) ==
  [country      |-> f.rows[i][countryHeader(f)],
   hotelName    |-> f.rows[i][hotelHeader(f)],
   city         |-> IF cityHeader(f) # Null THEN f.rows[i][cityHeader(f)] ELSE "undefined",
   originalData |-> f.rows[i]]

\* A variant that keeps every row with a country.
TaskValidByCountry(t) == Trim(t.country) # ""

\* .filter(task => String(task.country).trim() && String(task.hotelName).trim())
TaskValid(t) == Trim(t.country) # "" /\ Trim(t.hotelName) # ""

\* The task list of submission sub.  A task is an object of its own: sub and
\* index (its place in the list) stand for its identity.
TasksOf(f, sub) ==
  LET kept == SelectSeq([i \in 1..Len(f.rows) |-> TaskOf(f, i)], TaskValid)
  IN  [i \in 1..Len(kept) |->
         [country |-> kept[i].country, hotelName |-> kept[i].hotelName,
          city |-> kept[i].city, originalData |-> kept[i].originalData,
          sub |-> sub, index |-> i - 1]]

\* A variant that hands an empty task list to runBatchTasks.
ParseFileUnfiltered(f, sub) ==
  IF f.sheets = "none"
    THEN [ok |-> FALSE, message |-> <<"The uploaded file does not contain any sheets.">>]
  ELSE IF f.sheets = "noref"
    THEN [ok |-> FALSE, message |-> <<"Could not find any readable data sheets in the file.">>]
  ELSE IF Len(f.rows) = 0
    THEN [ok |-> FALSE, message |-> <<"The first valid sheet of the Excel file appears to be empty or contains no data rows after the header.">>]
  ELSE IF Len(f.headers) = 0
    THEN [ok |-> FALSE, message |-> <<"Could not detect any column headers in the sheet.">>]
  ELSE IF countryHeader(f) = Null \/ hotelHeader(f) = Null
    THEN [ok |-> FALSE, message |-> <<"Could not find required columns.">>]
  ELSE [ok |-> TRUE, tasks |-> TasksOf(f, sub)]

\* The try block of handleProcessFile up to the call of runBatchTasks: the
\* task list, or the message of the error it throws.
ParseFile(f, sub) ==
  IF f.sheets = "none"
    THEN [ok |-> FALSE, message |-> <<"The uploaded file does not contain any sheets.">>]
  ELSE IF f.sheets = "noref"
    THEN [ok |-> FALSE, message |-> <<"Could not find any readable data sheets in the file.">>]
  ELSE IF Len(f.rows) = 0
    THEN [ok |-> FALSE, message |-> <<"The first valid sheet of the Excel file appears to be empty or contains no data rows after the header.">>]
  ELSE IF Len(f.headers) = 0
    THEN [ok |-> FALSE, message |-> <<"Could not detect any column headers in the sheet.">>]
  ELSE IF countryHeader(f) = Null \/ hotelHeader(f) = Null
    THEN [ok |-> FALSE, message |-> <<"Could not find required columns.">>]
  ELSE IF Len(TasksOf(f, sub)) = 0
    THEN [ok |-> FALSE, message |-> <<"No valid tasks with data were found.">>]
  ELSE [ok |-> TRUE, tasks |-> TasksOf(f, sub)]


\* ------------------------------------------------------------- state
VARIABLES
  withLookup,           \* the App that runs: the one that fetches a GIATA code
                        \* before each generation call, or the one that does not
  hotelData,            \* useState: the record of single-entry mode
  isLoading,            \* useState: a single-entry generation is in flight
  request,              \* history: the provider's answer to the latest
                        \* single-entry generation
  form,                 \* history: the country and the hotel name of
                        \* InputForm at its latest submit event
  error,                \* useState: the error banner (NoMessage for null)
  batchResults,         \* useState: the results list shown and exported
  batchState,           \* useState: idle, running, paused, aborted, completed
  batchProgress,        \* useState: [current, total]
  batchError,           \* useState: the rate-limit notice or Null
  isPausedRef,          \* useRef
  isAbortedRef,         \* useRef
  currentTaskIndexRef,  \* useRef: the cursor
  submitted,            \* number of handleProcessFile calls made so far
  sheet,                \* history: what XLSX has read from the file of the
                        \* latest submission, where a specification keeps it
  exported,             \* history: the file written by the latest download
                        \* request since the results list was last set
  pc,                   \* where each handleProcessFile call and its loop stand
  tasks,                \* the tasks argument of each runBatchTasks call
  results,              \* the local results array of each runBatchTasks call
  currentIndex,         \* the local currentIndex of each runBatchTasks call
  calls,                \* history: generation calls started, per task
  rateFails,            \* history: rate-limit failures handled, per task
  sent,                 \* history: requests sent to the provider, per task
  abortCursor,          \* history: the cursor at the first abort request of
                        \* the run, -1 when none was made
  lastSettled,          \* history: the generation call that settled last
  resumedAt             \* history: the cursor at the latest resume request
                        \* that no pause request and no turn of the loop has
                        \* followed yet, -1 when there is none

\* The state of single-entry mode and of batch mode; error belongs to both.
single == <<hotelData, isLoading, request, form>>
batch == <<batchResults, batchState, batchProgress, batchError, isPausedRef,
           isAbortedRef, currentTaskIndexRef, submitted, sheet, exported, pc, tasks,
           results, currentIndex, calls, rateFails, sent, abortCursor,
           lastSettled, resumedAt>>

vars == <<withLookup, hotelData, isLoading, request, form, error, batchResults, batchState, batchProgress, batchError,
          isPausedRef, isAbortedRef, currentTaskIndexRef, submitted, sheet, exported, pc,
          tasks, results, currentIndex, calls, rateFails, sent, abortCursor,
          lastSettled, resumedAt>>

Subs == 1..MaxSubmissions
Rows == 1..MaxRows

NoRequest == [kind |-> "none"]

\* useState('Malediven'), useState('Constance Halaveli'): the fields of
\* InputForm when the page has loaded.
FormDefaults == [country |-> "Malediven", hotelName |-> "Constance Halaveli"]
NoSheet == [sheets |-> "unread"]
NoExport == [format |-> "none"]

\* The state after the page has loaded, of either App.
Loaded ==
  /\ hotelData = NoRecord
  /\ isLoading = FALSE
  /\ request = NoRequest
  /\ form = FormDefaults
  /\ error = NoMessage
  /\ batchResults = << >>
  /\ batchState = "idle"
  /\ batchProgress = [current |-> 0, total |-> 0]
  /\ batchError = Null
  /\ isPausedRef = FALSE
  /\ isAbortedRef = FALSE
  /\ currentTaskIndexRef = 0
  /\ submitted = 0
  /\ sheet = NoSheet
  /\ exported = NoExport
  /\ pc = [p \in Subs |-> "none"]
  /\ tasks = [p \in Subs |-> << >>]
  /\ results = [p \in Subs |-> << >>]
  /\ currentIndex = [p \in Subs |-> 0]
  /\ calls = [p \in Subs |-> [i \in Rows |-> 0]]
  /\ rateFails = [p \in Subs |-> [i \in Rows |-> 0]]
  /\ sent = [p \in Subs |-> [i \in Rows |-> 0]]
  /\ abortCursor = -1
  /\ lastSettled = [sub |-> 0, index |-> 0, outcome |-> "none"]
  /\ resumedAt = -1

Init == withLookup = FALSE /\ Loaded

\* The App with the GIATA lookup.
InitLookup == withLookup = TRUE /\ Loaded

\* ------------------------------------------------- BatchUploadForm controls
isProcessing == batchState \in {"running", "paused"}
PauseOffered  == isProcessing /\ batchState = "running"
\* A variant that shows Resume whenever the pause flag is set.
ResumeOfferedWhenFlagged == isPausedRef

\* {batchState === 'paused' && <button onClick={onResume}>}
ResumeOffered == isProcessing /\ batchState = "paused"
AbortOffered  == isProcessing
SubmitEnabled == ~isProcessing

\* ------------------------------------------------------- runBatchTasks
\* A variant that takes every failure for a rate limit.
IsAnyError(r) == ~r.ok

\* A variant that looks for the provider's status code in the client's message.
IsRateLimitErrorByCode(r) == ~r.ok /\ Includes(r.message, <<"4", "2", "9">>)

\* errorMessage.includes("API rate limit exceeded")
IsRateLimitError(r) == ~r.ok /\ Includes(r.message, RateLimitNeedle)

\* A variant that shows only the entry of the task just handled.
ResultsAfterLastOnly(res, task, r) ==
  IF r.ok
    THEN <<[input |-> task, output |-> r.data, status |-> "Success",
            error |-> NoMessage]>>
    ELSE IF IsRateLimitError(r)
           THEN res
           ELSE <<[input |-> task, output |-> NoRecord, status |-> "Error",
                   error |-> r.message]>>

\* A variant that drops the outcome of a call that an abort request has
\* overtaken.
ResultsAfterUnlessAborted(res, task, r) ==
  IF isAbortedRef \/ (~r.ok /\ IsRateLimitError(r))
    THEN res
    ELSE Append(res, [input |-> task, output |-> IF r.ok THEN r.data ELSE NoRecord,
                      status |-> IF r.ok THEN "Success" ELSE "Error",
                      error |-> IF r.ok THEN NoMessage ELSE r.message])

\* The results array after the try/catch of one iteration.
ResultsAfter(res, task, r) ==
  IF r.ok
    THEN Append(res, [input |-> task, output |-> r.data, status |-> "Success",
                      error |-> NoMessage])
    ELSE IF IsRateLimitError(r)
           THEN res
           ELSE Append(res, [input |-> task, output |-> NoRecord, status |-> "Error",
                             error |-> r.message])

\* A variant that moves on after every failure, rate limit included.
CursorAfterSkipping(c, r) == c + 1

\* A variant that moves on after a success only.
CursorAfterSuccess(c, r) == IF r.ok THEN c + 1 ELSE c

\* A variant that starts the list again after a rate-limit failure.
CursorAfterRewinding(c, r) ==
  IF r.ok THEN c + 1 ELSE IF IsRateLimitError(r) THEN 0 ELSE c + 1

\* currentTaskIndexRef.current after the try/catch of one iteration.
CursorAfter(c, r) ==
  IF r.ok THEN c + 1 ELSE IF IsRateLimitError(r) THEN c ELSE c + 1

\* The loop returns or falls out of the while.
Stop(p, st, pr) ==
  /\ pc' = [pc EXCEPT ![p] = "done"]
  /\ batchState' = st
  /\ batchProgress' = pr
  /\ resumedAt' = -1
  /\ UNCHANGED <<currentIndex, calls>>

\* await new Promise(resolve => setTimeout(resolve, 200))
Park(p, st, pr) ==
  /\ pc' = [pc EXCEPT ![p] = "wait"]
  /\ batchState' = st
  /\ batchProgress' = pr
  /\ resumedAt' = -1
  /\ UNCHANGED <<currentIndex, calls>>

\* const currentIndex = ...; const task = tasks[currentIndex];
\* await generateHotelContent(task.country, task.hotelName, task.city), or in
\* the App with the lookup await fetchGiataCode(task.hotelName, task.country,
\* task.city)
Call(p, c, st, pr) ==
  /\ pc' = [pc EXCEPT ![p] = IF withLookup THEN "lookup" ELSE "call"]
  /\ currentIndex' = [currentIndex EXCEPT ![p] = c]
  /\ calls' = IF withLookup THEN calls ELSE [calls EXCEPT ![p][c + 1] = @ + 1]
  /\ resumedAt' = -1
  /\ batchState' = st
  /\ batchProgress' = pr

\* A variant without the abort check at the top of the loop.
LoopTopUnchecked(p, tl, c, paused, st, pr) ==
  IF c < Len(tl)
    THEN IF paused
           THEN Park(p, st, [current |-> c, total |-> Len(tl)])
           ELSE Call(p, c, st, [current |-> c, total |-> Len(tl)])
    ELSE IF ~isAbortedRef
           THEN Stop(p, "completed", [current |-> Len(tl), total |-> Len(tl)])
           ELSE Stop(p, st, pr)

\* A variant that shows 'aborted' at the top of the loop and goes on.
LoopTopGoingOn(p, tl, c, paused, st, pr) ==
  IF c < Len(tl)
    THEN IF paused
           THEN Park(p, IF isAbortedRef THEN "aborted" ELSE st,
                     [current |-> c, total |-> Len(tl)])
           ELSE Call(p, c, IF isAbortedRef THEN "aborted" ELSE st,
                     [current |-> c, total |-> Len(tl)])
    ELSE IF ~isAbortedRef
           THEN Stop(p, "completed", [current |-> Len(tl), total |-> Len(tl)])
           ELSE Stop(p, st, pr)

\* A variant that leaves the loop without reporting the completion.
LoopTopSilent(p, tl, c, paused, st, pr) ==
  IF c < Len(tl)
    THEN IF isAbortedRef
           THEN Stop(p, "aborted", [current |-> c, total |-> Len(tl)])
           ELSE IF paused
                  THEN Park(p, st, [current |-> c, total |-> Len(tl)])
                  ELSE Call(p, c, st, [current |-> c, total |-> Len(tl)])
    ELSE Stop(p, st, pr)

\* A variant without the pause wait.
LoopTopUnpaused(p, tl, c, paused, st, pr) ==
  IF c < Len(tl)
    THEN IF isAbortedRef
           THEN Stop(p, "aborted", [current |-> c, total |-> Len(tl)])
           ELSE Call(p, c, st, [current |-> c, total |-> Len(tl)])
    ELSE IF ~isAbortedRef
           THEN Stop(p, "completed", [current |-> Len(tl), total |-> Len(tl)])
           ELSE Stop(p, st, pr)

\* From the test of the outer while up to the next await (or the return).
\* c and paused are the cursor and the pause flag, st and pr the batch state
\* and progress, as the code earlier in the same stretch has left them.
LoopTop(p, tl, c, paused, st, pr) ==
  IF c < Len(tl)
    THEN IF isAbortedRef
           THEN Stop(p, "aborted", [current |-> c, total |-> Len(tl)])
           ELSE IF paused
                  THEN Park(p, st, [current |-> c, total |-> Len(tl)])
                  ELSE Call(p, c, st, [current |-> c, total |-> Len(tl)])
    ELSE IF ~isAbortedRef
           THEN Stop(p, "completed", [current |-> Len(tl), total |-> Len(tl)])
           ELSE Stop(p, st, pr)

\* ------------------------------------------------------------ handlers
\* A handleProcessFile call that has returned, with its loop.
Finished(q) == pc[q] \in {"done", "rejected", "crashed"}

\* The locals of call q, which exist only while the call runs: kept until the
\* next submission, so that the end of a run can be inspected.
Live(f, p, empty) ==
  [q \in Subs |-> IF q # p /\ Finished(q) THEN empty ELSE f[q]]

\* handleProcessFile, from the click on Process File to await file.arrayBuffer().
\* The runBatchTasks this handler will call is the one of the render the click
\* was made in: its batchResults is the list shown at the click.
handleProcessFile(p) ==
  /\ SubmitEnabled
  /\ p = submitted + 1
  /\ submitted' = p
  /\ sheet' = NoSheet
  /\ exported' = NoExport
  /\ batchResults' = << >>
  /\ error' = NoMessage
  /\ batchError' = Null
  /\ batchProgress' = [current |-> 0, total |-> 0]
  /\ currentTaskIndexRef' = 0
  /\ isPausedRef' = FALSE
  /\ isAbortedRef' = FALSE
  /\ batchState' = "idle"
  /\ pc' = [pc EXCEPT ![p] = "reading"]
  /\ results' = [Live(results, p, << >>) EXCEPT ![p] = batchResults]
  /\ abortCursor' = -1
  /\ tasks' = Live(tasks, p, << >>)
  /\ currentIndex' = Live(currentIndex, p, 0)
  /\ calls' = Live(calls, p, [i \in Rows |-> 0])
  /\ rateFails' = Live(rateFails, p, [i \in Rows |-> 0])
  /\ sent' = Live(sent, p, [i \in Rows |-> 0])
  /\ lastSettled' = [sub |-> 0, index |-> 0, outcome |-> "none"]
  /\ resumedAt' = -1
  /\ UNCHANGED <<single, withLookup>>

\* handleProcessFile after the file has been read: the parse, then either the
\* catch block or runBatchTasks(tasks) up to its first await.  files are the
\* files that may have been chosen; the file read is kept in sheet if kept.
FileReadFrom(p, files, kept) ==
  /\ pc[p] = "reading"
  /\ \E f \in files :
       LET r == ParseFile(f, p) IN
       /\ sheet' = IF kept THEN f ELSE sheet
       /\ exported' = exported
       /\ IF r.ok
            THEN /\ tasks' = [tasks EXCEPT ![p] = r.tasks]
                 /\ LoopTop(p, r.tasks, currentTaskIndexRef, isPausedRef, "running",
                            [current |-> 0, total |-> Len(r.tasks)])
                 /\ UNCHANGED <<error, batchResults, batchError, isPausedRef,
                                isAbortedRef, currentTaskIndexRef, submitted,
                                results, rateFails, sent, abortCursor, lastSettled>>
            ELSE /\ error' = r.message
                 /\ batchState' = "idle"
                 /\ pc' = [pc EXCEPT ![p] = "rejected"]
                 /\ UNCHANGED <<batchResults, batchProgress, batchError, isPausedRef,
                                isAbortedRef, currentTaskIndexRef, submitted, tasks,
                                results, currentIndex, calls, rateFails, sent,
                                abortCursor, lastSettled, resumedAt>>
  /\ UNCHANGED <<single, withLookup>>

FileRead(p) == FileReadFrom(p, Files, FALSE)

\* The same step for a sheet of HeaderSheets, which is kept.
HeaderSheetRead(p) == FileReadFrom(p, HeaderSheets, TRUE)

\* The same step for a sheet of ExportSheets.
ExportSheetRead(p) == FileReadFrom(p, ExportSheets, FALSE)

\* The same step for a sheet of LookupSheets.
LookupSheetRead(p) == FileReadFrom(p, LookupSheets, FALSE)

\* The same step for a sheet of RowSheets, which is kept.
RowSheetRead(p) == FileReadFrom(p, RowSheets, TRUE)

\* The 200 ms timer of the pause wait fires: the abort check, the test of the
\* inner while, and (when the wait is over) the start of the next call.  A
\* wake that finds the pause flag still set goes back to sleep.
PauseWake(p) ==
  /\ pc[p] = "wait"
  /\ IF isAbortedRef
       THEN Stop(p, "aborted", batchProgress)
       ELSE /\ ~isPausedRef
            /\ IF currentTaskIndexRef < Len(tasks[p])
                 THEN Call(p, currentTaskIndexRef, batchState, batchProgress)
                 ELSE \* tasks[currentIndex] is undefined: task.country throws
                      /\ pc' = [pc EXCEPT ![p] = "crashed"]
                      /\ UNCHANGED <<batchState, batchProgress, currentIndex, calls,
                                     resumedAt>>
  /\ UNCHANGED <<error, batchResults, batchError, isPausedRef, isAbortedRef,
                 currentTaskIndexRef, submitted, sheet, exported, tasks, results, rateFails, sent,
                 abortCursor, lastSettled>>
  /\ UNCHANGED <<single, withLookup>>

\* The awaited call of loop p has settled with r, after requests requests to
\* the provider: the rest of the try/catch, setBatchResults([...results]), and
\* the loop again up to its next await.
TaskSettled(p, r, requests) ==
  LET i    == currentIndex[p] + 1
      task == tasks[p][i]
      rate == IsRateLimitError(r)
      res  == ResultsAfter(results[p], task, r)
      c    == CursorAfter(currentTaskIndexRef, r)
  IN
  /\ results' = [results EXCEPT ![p] = res]
  /\ currentTaskIndexRef' = c
  /\ rateFails' = [rateFails EXCEPT ![p][i] = IF rate THEN @ + 1 ELSE @]
  /\ sent' = [sent EXCEPT ![p][i] = @ + requests]
  /\ exported' = NoExport
  /\ batchError' = IF rate THEN RateLimitNotice ELSE batchError
  /\ isPausedRef' = IF rate THEN TRUE ELSE isPausedRef
  /\ batchResults' = res
  /\ lastSettled' = [sub |-> p, index |-> currentIndex[p], outcome |-> Outcome(r)]
  /\ LoopTop(p, tasks[p], c, IF rate THEN TRUE ELSE isPausedRef,
             IF rate THEN "paused" ELSE batchState, batchProgress)
  /\ UNCHANGED <<error, isAbortedRef, submitted, sheet, tasks, abortCursor>>
  /\ UNCHANGED <<single, withLookup>>

\* The generation call of loop p settles with the provider's answer a, one
\* of answers.
GenerationSettledFrom(p, answers) ==
  /\ pc[p] = "call"
  /\ \E a \in answers :
       LET r == generateHotelContent(a) IN
       /\ IsRateLimitError(r) => rateFails[p][currentIndex[p] + 1] < MaxRateLimits
       /\ TaskSettled(p, r, RequestsSent(a))

\* The App with the lookup: fetchGiataCode has settled for the task of loop
\* p.  With a code the generation call is made; with null the try block
\* throws and the catch block handles the error.
GiataSettled(p) ==
  /\ pc[p] = "lookup"
  /\ LET task == tasks[p][currentIndex[p] + 1] IN
     IF fetchGiataCode(task.hotelName, task.country) # Null
       THEN /\ pc' = [pc EXCEPT ![p] = "call"]
            /\ calls' = [calls EXCEPT ![p][currentIndex[p] + 1] = @ + 1]
            /\ UNCHANGED <<error, batchResults, batchState, batchProgress, batchError,
                           isPausedRef, isAbortedRef, currentTaskIndexRef, submitted,
                           sheet, exported, tasks, results, currentIndex, rateFails,
                           sent, abortCursor, lastSettled, resumedAt>>
            /\ UNCHANGED <<single, withLookup>>
       ELSE TaskSettled(p, [ok |-> FALSE, message |-> GiataNotFoundMessage], 0)

GenerationSettled(p) == GenerationSettledFrom(p, ProviderAnswers)

\* The same when the provider answers the request with the JSON text null.
NullTextSettled(p) == GenerationSettledFrom(p, {NullTextAnswer})

\* The same step when the provider answers with one of ExportAnswers.
ValuedSettled(p) == GenerationSettledFrom(p, ExportAnswers)

\* A variant that sets the pause flag and leaves the state shown as it is.
handlePauseFlagOnly ==
  /\ PauseOffered
  /\ isPausedRef' = TRUE
  /\ resumedAt' = -1
  /\ UNCHANGED <<error, batchResults, batchState, batchProgress, batchError, isAbortedRef,
                 currentTaskIndexRef, submitted, sheet, exported, pc, tasks, results, currentIndex,
                 calls, rateFails, sent, abortCursor, lastSettled>>
  /\ UNCHANGED <<single, withLookup>>

\* handlePause, called by the Pause control.
handlePause ==
  /\ PauseOffered
  /\ isPausedRef' = TRUE
  /\ batchState' = "paused"
  /\ resumedAt' = -1
  /\ UNCHANGED <<error, batchResults, batchProgress, batchError, isAbortedRef,
                 currentTaskIndexRef, submitted, sheet, exported, pc, tasks, results, currentIndex,
                 calls, rateFails, sent, abortCursor, lastSettled>>
  /\ UNCHANGED <<single, withLookup>>

\* A variant that updates what is shown and leaves the pause flag set.
handleResumeShownOnly ==
  /\ ResumeOffered
  /\ batchError' = Null
  /\ batchState' = "running"
  /\ resumedAt' = currentTaskIndexRef
  /\ UNCHANGED <<error, batchResults, batchProgress, isPausedRef, isAbortedRef,
                 currentTaskIndexRef, submitted, sheet, exported, pc, tasks, results, currentIndex,
                 calls, rateFails, sent, abortCursor, lastSettled>>
  /\ UNCHANGED <<single, withLookup>>

handleResume ==
  /\ ResumeOffered
  /\ isPausedRef' = FALSE
  /\ batchError' = Null
  /\ batchState' = "running"
  /\ resumedAt' = currentTaskIndexRef
  /\ UNCHANGED <<error, batchResults, batchProgress, isAbortedRef,
                 currentTaskIndexRef, submitted, sheet, exported, pc, tasks, results, currentIndex,
                 calls, rateFails, sent, abortCursor, lastSettled>>
  /\ UNCHANGED <<single, withLookup>>

handleAbort ==
  /\ AbortOffered
  /\ isAbortedRef' = TRUE
  /\ abortCursor' = IF abortCursor = -1 THEN currentTaskIndexRef ELSE abortCursor
  /\ UNCHANGED <<error, batchResults, batchState, batchProgress, batchError,
                 isPausedRef, currentTaskIndexRef, submitted, sheet, exported, pc, tasks, results,
                 currentIndex, calls, rateFails, sent, lastSettled, resumedAt>>
  /\ UNCHANGED <<single, withLookup>>

\* ------------------------------------------------------------- export
\* a || b
Falsy(v) ==
  \/ v.type \in {"null", "undefined"}
  \/ v.type = "string" /\ v.text = << >>
  \/ v.type = "number" /\ v.num = 0
Or(v, w) == IF Falsy(v) THEN w ELSE v

\* res.output?.key
OutputKey(res, key) ==
  IF res.output = NoRecord THEN Undefined ELSE res.output.values[key]

\* The text of a cell of the sheet read.
Text(c) == IF c = "" THEN << >> ELSE <<c>>

\* `${o.Adresse_Strasse}, ${o.PLZ} ${o.Ort}`
AddressOf(o) ==
  o.values["Adresse_Strasse"].text \o <<",", " ">> \o o.values["PLZ"].text
    \o <<" ">> \o o.values["Ort"].text

AppendedColumns ==
  {"Status", "Error", "GIATA Code", "Address", "Phone", "Latitude", "Longitude",
   "Description DE", "Description FR"}

\* const generatedData = {...}
generatedData(res) ==
  [k \in AppendedColumns |->
     CASE k = "Status"         -> Str(<<res.status>>)
       [] k = "Error"          -> Or(Str(res.error), Str(<< >>))
       [] k = "GIATA Code"     -> Or(OutputKey(res, "GIATA_Code"), Str(<< >>))
       [] k = "Address"        -> IF res.output # NoRecord
                                    THEN Str(AddressOf(res.output))
                                    ELSE Str(<< >>)
       [] k = "Phone"          -> Or(OutputKey(res, "Telefon"), Str(<< >>))
       [] k = "Latitude"       -> Or(OutputKey(res, "Latitude"), Str(<< >>))
       [] k = "Longitude"      -> Or(OutputKey(res, "Longitude"), Str(<< >>))
       [] k = "Description DE" -> Or(OutputKey(res, "Beschreibung_DE"), Str(<< >>))
       [] k = "Description FR" -> Or(OutputKey(res, "Beschreibung_FR"), Str(<< >>))]

\* { ...originalData, ...generatedData }
flattenedRow(res) ==
  LET o == res.input.originalData
      g == generatedData(res)
  IN  [k \in DOMAIN o \cup DOMAIN g |->
         IF k \in DOMAIN g THEN g[k] ELSE Str(Text(o[k]))]

Formats == {"json", "xlsx"}

\* The download buttons are rendered when the results list is not empty.
DownloadOffered == Len(batchResults) > 0

\* A variant that writes the entry of the task handled last only.
handleDownloadLastOnly(format) ==
  /\ exported' =
       IF Len(batchResults) = 0 THEN exported
       ELSE IF format = "json"
         THEN [format |-> "json", name |-> "hotel_content_results.json",
               entries |-> <<batchResults[Len(batchResults)]>>]
         ELSE [format |-> "xlsx", name |-> "hotel_content_results.xlsx",
               rows |-> <<flattenedRow(batchResults[Len(batchResults)])>>]
  /\ UNCHANGED <<error, batchResults, batchState, batchProgress, batchError,
                 isPausedRef, isAbortedRef, currentTaskIndexRef, submitted, sheet,
                 pc, tasks, results, currentIndex, calls, rateFails, sent,
                 abortCursor, lastSettled, resumedAt>>
  /\ UNCHANGED <<single, withLookup>>

\* handleDownload: the file it writes, if any.
handleDownload(format) ==
  /\ exported' =
       IF Len(batchResults) = 0 THEN exported
       ELSE IF format = "json"
         THEN [format |-> "json", name |-> "hotel_content_results.json",
               entries |-> batchResults]
         ELSE [format |-> "xlsx", name |-> "hotel_content_results.xlsx",
               rows |-> [k \in 1..Len(batchResults) |-> flattenedRow(batchResults[k])]]
  /\ UNCHANGED <<error, batchResults, batchState, batchProgress, batchError,
                 isPausedRef, isAbortedRef, currentTaskIndexRef, submitted, sheet,
                 pc, tasks, results, currentIndex, calls, rateFails, sent,
                 abortCursor, lastSettled, resumedAt>>
  /\ UNCHANGED <<single, withLookup>>

\* ----------------------------------------------------- single-entry mode
\* The submit button of InputForm is disabled while a generation is in flight.
GenerateEnabled == ~isLoading

\* handleGenerate, called by handleSubmit of the form, up to
\* await generateHotelContent().
handleGenerate ==
  /\ isLoading' = TRUE
  /\ error' = NoMessage
  /\ hotelData' = NoRecord
  /\ request' = NoRequest
  /\ UNCHANGED <<batch, withLookup>>

\* handleGenerate after the call has settled with the provider's answer a,
\* one of answers: setHotelData(data) or the catch block, then the finally
\* block.
GenerateSettledFrom(answers) ==
  /\ isLoading
  /\ request.kind # "lookup"
  /\ \E a \in answers :
       LET r == generateHotelContent(a) IN
       /\ request' = a
       /\ hotelData' = IF r.ok THEN r.data ELSE hotelData
       /\ error' = IF r.ok THEN error ELSE r.message
  /\ isLoading' = FALSE
  /\ UNCHANGED <<form, batch, withLookup>>

GenerateSettled == GenerateSettledFrom(ClientAnswers)

\* The texts typed into the country and the hotel-name field of InputForm.
FormTexts == {"", " ", "CH", "Hotel A"}

\* The App with the lookup: handleGenerate, called by handleSubmit of the
\* form, up to await fetchGiataCode().
handleGenerateWithLookup(country, hotelName) ==
  /\ isLoading' = TRUE
  /\ error' = NoMessage
  /\ hotelData' = NoRecord
  /\ request' = [kind |-> "lookup", country |-> country, hotelName |-> hotelName]
  /\ UNCHANGED <<batch, withLookup>>

\* onGenerate={handleGenerate} of the App that runs.
onGenerate(country, hotelName) ==
  IF withLookup
    THEN handleGenerateWithLookup(country, hotelName)
    ELSE handleGenerate

\* A variant that requires the country only.
handleSubmitCountryOnly(country, hotelName) ==
  /\ GenerateEnabled
  /\ form' = [country |-> country, hotelName |-> hotelName]
  /\ IF Trim(country) # ""
       THEN onGenerate(country, hotelName)
       ELSE UNCHANGED <<hotelData, isLoading, request, error, batch, withLookup>>

\* handleSubmit of InputForm, with country and hotelName in its fields:
\* onGenerate is called only when both are non-blank.  The submit button is
\* disabled while a generation is in flight.
handleSubmit(country, hotelName) ==
  /\ GenerateEnabled
  /\ form' = [country |-> country, hotelName |-> hotelName]
  /\ IF Trim(country) # "" /\ Trim(hotelName) # ""
       THEN onGenerate(country, hotelName)
       ELSE UNCHANGED <<hotelData, isLoading, request, error, batch, withLookup>>

\* The App with the lookup: fetchGiataCode has settled for the request of
\* the form.  With a code the generation call is made; with null the try
\* block throws, and the catch and the finally block follow.
GenerateGiataSettled ==
  /\ isLoading
  /\ request.kind = "lookup"
  /\ IF fetchGiataCode(request.hotelName, request.country) # Null
       THEN /\ request' = [kind |-> "generating"]
            /\ UNCHANGED <<hotelData, isLoading, error>>
       ELSE /\ request' = [kind |-> "notFound"]
            /\ error' = GiataNotFoundFor(request.hotelName)
            /\ isLoading' = FALSE
            /\ UNCHANGED hotelData
  /\ UNCHANGED <<form, batch, withLookup>>

\* ------------------------------------------------------- specifications
Submit     == \E p \in Subs : handleProcessFile(p)
FileLoaded == \E p \in Subs : FileRead(p)
Wake       == \E p \in Subs : PauseWake(p)
Settle     == \E p \in Subs : GenerationSettled(p)

\* The program under every use the controls allow.
Next ==
  \/ Submit
  \/ FileLoaded
  \/ Wake
  \/ Settle
  \/ handlePause
  \/ handleResume
  \/ handleAbort

Spec == Init /\ [][Next]_vars

\* The program when a file is submitted only after the file submitted before
\* it has been read: the runs follow one another.
NoFilePending == \A q \in Subs : pc[q] # "reading"
SubmitNext == NoFilePending /\ Submit

NextRuns ==
  \/ SubmitNext
  \/ FileLoaded
  \/ Wake
  \/ Settle
  \/ handlePause
  \/ handleResume
  \/ handleAbort

SpecRuns == Init /\ [][NextRuns]_vars

\* The runs that follow one another when the provider may also answer a
\* request with the JSON text null.
SettleNullText == \E p \in Subs : NullTextSettled(p)

NextRunsAnyText ==
  \/ SubmitNext
  \/ FileLoaded
  \/ Wake
  \/ Settle
  \/ SettleNullText
  \/ handlePause
  \/ handleResume
  \/ handleAbort

SpecRunsAnyText == Init /\ [][NextRunsAnyText]_vars

\* The submissions of sheets with all kinds of header rows, up to the first
\* generation call of a sheet that is accepted.
HeadersLoaded == \E p \in Subs : HeaderSheetRead(p)

NextSheets ==
  \/ SubmitNext
  \/ HeadersLoaded

SpecSheets == Init /\ [][NextSheets]_vars

\* The first submission after the page has loaded, of a sheet with blank and
\* full rows, and its run.
SubmitFirst == submitted = 0 /\ Submit
RowsLoaded == \E p \in Subs : RowSheetRead(p)

NextRows ==
  \/ SubmitFirst
  \/ RowsLoaded
  \/ Wake
  \/ Settle
  \/ handlePause
  \/ handleResume
  \/ handleAbort

SpecRows == Init /\ [][NextRows]_vars

\* The first submission after the page has loaded and its run, with records
\* that have values, and the downloads of the results.
ExportSheetLoaded == \E p \in Subs : ExportSheetRead(p)
SettleValued == \E p \in Subs : ValuedSettled(p)
Download == \E format \in Formats : handleDownload(format)

NextExport ==
  \/ SubmitFirst
  \/ ExportSheetLoaded
  \/ Wake
  \/ SettleValued
  \/ handlePause
  \/ handleResume
  \/ handleAbort
  \/ Download

SpecExport == Init /\ [][NextExport]_vars

\* The App with the lookup: single-entry requests, the first submission of a
\* sheet and its run.
LookupSheetLoaded == \E p \in Subs : LookupSheetRead(p)
GiataDone == \E p \in Subs : GiataSettled(p)
Generate == \E country, hotelName \in FormTexts : handleSubmit(country, hotelName)
GenerateDone == GenerateSettledFrom(ProviderAnswers)

NextLookup ==
  \/ SubmitFirst
  \/ LookupSheetLoaded
  \/ GiataDone
  \/ Wake
  \/ Settle
  \/ handlePause
  \/ handleResume
  \/ handleAbort
  \/ Generate
  \/ GenerateGiataSettled
  \/ GenerateDone

SpecLookup == InitLookup /\ [][NextLookup]_vars

\* Single-entry mode, with every answer of the provider.
NextSingle ==
  \/ Generate
  \/ GenerateSettled

SpecSingle == Init /\ [][NextSingle]_vars

\* The runs when no abort is requested, every generation call settles, every
\* pause is followed by a resume, and the 200 ms timer of a parked loop, which
\* fires for as long as the loop is parked, finds the pause flag cleared at
\* one of its ticks if it is cleared again and again.  The provider answers
\* 429 at most MaxRateLimits times for a task.
NextUnaborted ==
  \/ SubmitNext
  \/ FileLoaded
  \/ Wake
  \/ Settle
  \/ handlePause
  \/ handleResume

FairRuns ==
  /\ Init
  /\ [][NextUnaborted]_vars
  /\ WF_vars(Settle)
  /\ WF_vars(handleResume)
  /\ SF_vars(Wake)


\* ============================================================== claims
\* The places k of a results list whose entry is for the task at index i of
\* the task list of submission p.
EntriesFor(list, p, i) ==
  {k \in 1..Len(list) : list[k].input.sub = p /\ list[k].input.index = i}

Succeeded(list, p, i) ==
  \E k \in EntriesFor(list, p, i) : list[k].status = "Success"

\* The generation call of loop p settles in this step.
Settles(p) ==
  /\ pc[p] = "call"
  /\ <<results[p], rateFails[p]>>' # <<results[p], rateFails[p]>>

\* A generation call for the task at index i of submission p starts in this step.
Starts(p, i) == calls'[p][i + 1] > calls[p][i + 1]

Indexes == 0..(MaxRows - 1)

\* C1: a rate-limit failure leaves the cursor and the runner's results list as
\* they were, and a task that has succeeded after k rate-limit failures has
\* had exactly k + 1 generation calls and has exactly one entry, a Success
\* entry, in the runner's list and in the list shown.
RateLimitedOnce(list, p, i) ==
  (i < Len(tasks[p]) /\ Succeeded(list, p, i)) =>
    /\ Cardinality(EntriesFor(list, p, i)) = 1
    /\ calls[p][i + 1] = rateFails[p][i + 1] + 1

RateLimitKeepsCursor ==
  [][ /\ \A p \in Subs :
           (Settles(p) /\ lastSettled'.outcome = "rateLimited") =>
             /\ currentTaskIndexRef' = currentTaskIndexRef
             /\ results'[p] = results[p]
             /\ calls'[p][currentIndex[p] + 1] = calls[p][currentIndex[p] + 1]
      /\ \A p \in Subs : \A i \in Indexes :
           /\ RateLimitedOnce(results[p], p, i)'
           /\ RateLimitedOnce(batchResults, p, i)' ]_vars

\* C1 witness: a run has completed in which a task was rate limited as often
\* as the provider may do it and then succeeded.
RateLimitedThenSucceeded ==
  \E p \in Subs : \E i \in Indexes :
    /\ pc[p] = "done"
    /\ batchState = "completed"
    /\ rateFails[p][i + 1] = MaxRateLimits
    /\ rateFails[p][i + 1] > 0
    /\ Succeeded(batchResults, p, i)

\* C2: once an abort request has been made in a run with the cursor at c, no
\* generation call starts for a task with an index above c.
NoCallBeyondAbort ==
  [][ \A p \in Subs : \A i \in Indexes :
        (abortCursor >= 0 /\ Starts(p, i)) => i <= abortCursor ]_vars

\* C2 witness: a run aborted while its second task was in flight, after that
\* call has settled and the loop has returned.
AbortedInFlight ==
  \E p \in Subs :
    /\ pc[p] = "done"
    /\ abortCursor >= 0
    /\ abortCursor < currentTaskIndexRef
    /\ currentTaskIndexRef < Len(tasks[p])
    /\ batchState = "aborted"

\* C3: when an abort has been requested in a run and the loop of that run has
\* ended, the batch state is 'aborted'.
AbortEndsAborted ==
  \A p \in Subs :
    (p = submitted /\ pc[p] = "done" /\ isAbortedRef) => batchState = "aborted"

\* C4: a run starts with an empty results list: what its loop has accumulated
\* are entries for tasks of its own task list, at most one per task handled.
RunStartsClean ==
  \A p \in Subs :
    pc[p] \in {"call", "wait", "done"} =>
      /\ \A k \in 1..Len(results[p]) : results[p][k].input.sub = p
      /\ Len(results[p]) <= Len(tasks[p])

\* C5: a generation call that fails with another error than the rate-limit
\* error advances the cursor by one, appends one Error entry for its task with
\* null output and a non-empty message, and pauses nothing; a task that has an
\* Error entry is not called again.
FailureSkipsTask ==
  [][ /\ \A p \in Subs :
           (Settles(p) /\ lastSettled'.outcome = "failed") =>
             LET n == Len(results'[p]) IN
             /\ currentTaskIndexRef' = currentTaskIndexRef + 1
             /\ n = Len(results[p]) + 1
             /\ SubSeq(results'[p], 1, n - 1) = results[p]
             /\ results'[p][n].input = tasks[p][currentIndex[p] + 1]
             /\ results'[p][n].status = "Error"
             /\ results'[p][n].output = NoRecord
             /\ Len(results'[p][n].error) > 0
             /\ batchResults' = results'[p]
             /\ isPausedRef' = isPausedRef
             /\ batchState' = "paused" => batchState = "paused"
      /\ \A p \in Subs : \A i \in Indexes :
           (\E k \in EntriesFor(results[p], p, i) : results[p][k].status = "Error")
             => ~Starts(p, i) ]_vars

\* C5 witness: the first task of a run has failed with a generation error and
\* the loop is calling the second.
FailedAndMovedOn ==
  \E p \in Subs :
    /\ lastSettled = [sub |-> p, index |-> 0, outcome |-> "failed"]
    /\ pc[p] = "call"
    /\ currentIndex[p] = 1
    /\ batchState = "running"

\* C6: while the loop of the current run is parked in the pause wait, or has
\* ended, the results list is as long as the cursor says.
CursorCountsResults ==
  \A p \in Subs :
    (p = submitted /\ pc[p] \in {"wait", "done"}) =>
      /\ Len(batchResults) = currentTaskIndexRef
      /\ Len(results[p]) = currentTaskIndexRef

\* C7: a started run reaches 'completed' with progress (total, total) and a
\* results list holding exactly one entry for each of its tasks.
Completed(p) ==
  /\ pc[p] = "done"
  /\ batchState = "completed"
  /\ batchProgress = [current |-> Len(tasks[p]), total |-> Len(tasks[p])]
  /\ \A i \in Indexes :
       i < Len(tasks[p]) => Cardinality(EntriesFor(batchResults, p, i)) = 1

\* The run of the latest submission (loops of runs that follow one another
\* never overlap).
Current == IF submitted = 0 THEN 1 ELSE submitted

ListedTransitions ==
  { <<"idle", "running">>, <<"running", "paused">>, <<"paused", "running">>,
    <<"running", "completed">>, <<"running", "aborted">>, <<"paused", "aborted">> }

OnlyListedTransitions ==
  [][ (submitted' = submitted /\ batchState' # batchState)
        => <<batchState, batchState'>> \in ListedTransitions ]_vars

\* C9: while the batch state is 'aborted', no entry is appended to a results
\* list and no generation call starts, until the next submission.
AbortedIsFinal ==
  [][ (batchState = "aborted" /\ submitted' = submitted) =>
        /\ results' = results
        /\ batchResults' = batchResults
        /\ calls' = calls
        /\ \A p \in Subs : pc'[p] # "call" ]_vars

\* C9 witness: a run aborted with tasks left over, after a rate-limit pause
\* that a resume request has ended.
AbortedWithTasksLeft ==
  \E p \in Subs :
    /\ pc[p] = "done"
    /\ batchState = "aborted"
    /\ currentTaskIndexRef < Len(tasks[p])
    /\ rateFails[p][currentTaskIndexRef + 1] > 0
    /\ ~isPausedRef

\* C10: at most one processing loop is alive (awaiting a generation call or
\* parked in the pause wait) at any time.
OneLoopAtATime ==
  Cardinality({p \in Subs : pc[p] \in {"call", "wait"}}) <= 1

\* C11: the results list of the current run is in task order: its entry at
\* place k is for the task at place k of the run's task list (the same task
\* object), in the runner's list and in the list shown.
InTaskOrder(list, p) ==
  \A k \in 1..Len(list) : k <= Len(tasks[p]) /\ list[k].input = tasks[p][k]

ResultsInTaskOrder ==
  \A p \in Subs :
    (p = submitted /\ pc[p] \in {"call", "wait", "done"}) =>
      /\ InTaskOrder(results[p], p)
      /\ InTaskOrder(batchResults, p)

\* C12: a generation call that fails with the rate-limit error sets the pause
\* flag and the rate-limit notice and starts no call; the pause flag is
\* cleared only by a resume request (or the next submission); no call starts
\* while it is set; and a call started while that failure is the latest
\* outcome of the run (the first call after it) is for the same task index.
\* The step in which the generation call of loop p fails with the rate limit.
RateLimitedStep(p) == Settles(p) /\ lastSettled'.outcome = "rateLimited"

RetryAfterResume ==
  /\ \A p \in Subs :
       RateLimitedStep(p) =>
         /\ isPausedRef'
         /\ batchError' # Null
         /\ calls' = calls
  /\ (isPausedRef /\ ~isPausedRef' /\ submitted' = submitted) =>
       /\ batchState = "paused"
       /\ batchState' = "running"
       /\ batchError' = Null
       /\ pc' = pc
       /\ calls' = calls
  /\ \A p \in Subs : \A i \in Indexes :
       Starts(p, i) =>
         /\ ~isPausedRef'
         /\ (lastSettled'.sub = p /\ lastSettled'.outcome = "rateLimited")
              => i = lastSettled'.index

\* C12 as stated: right after the failure the batch state is 'paused'.
RateLimitPauses ==
  [][ /\ RetryAfterResume
      /\ \A p \in Subs : RateLimitedStep(p) => batchState' = "paused" ]_vars

\* C12 amended: right after the failure the batch state is 'paused' and the
\* loop is parked in the pause wait, unless an abort was requested while the
\* call was in flight: then the loop has seen the abort at its top, the batch
\* state is 'aborted' and the loop has returned.
RateLimitPausesUnlessAborted ==
  [][ /\ RetryAfterResume
      /\ \A p \in Subs :
           RateLimitedStep(p) =>
             IF isAbortedRef
               THEN batchState' = "aborted" /\ pc'[p] = "done"
               ELSE batchState' = "paused" /\ pc'[p] = "wait" ]_vars

\* C12 witness: the second task of a run was rate limited, the run was
\* resumed, and the call for the second task is in flight again.
RetriedAfterResume ==
  \E p \in Subs :
    /\ lastSettled = [sub |-> p, index |-> 1, outcome |-> "rateLimited"]
    /\ pc[p] = "call"
    /\ currentIndex[p] = 1
    /\ calls[p][2] = 2
    /\ batchState = "running"
    /\ batchError = Null
    /\ ~isPausedRef

\* C13: a generation call that settles while the pause flag is set has its
\* outcome recorded like any other (a success or a generation failure appends
\* its entry to the runner's list and to the list shown) and is followed by no
\* call; and whenever a generation call starts, the pause flag and the abort
\* flag are false.
PauseHoldsNextCall ==
  [][ /\ \A p \in Subs :
           (Settles(p) /\ isPausedRef) =>
             /\ calls' = calls
             /\ pc'[p] # "call"
             /\ lastSettled'.outcome \in {"success", "failed"} =>
                  LET n == Len(results'[p]) IN
                  /\ n = Len(results[p]) + 1
                  /\ SubSeq(results'[p], 1, n - 1) = results[p]
                  /\ results'[p][n].input = tasks[p][currentIndex[p] + 1]
                  /\ results'[p][n].status =
                       (IF lastSettled'.outcome = "success" THEN "Success" ELSE "Error")
                  /\ batchResults' = results'[p]
      /\ \A p \in Subs : \A i \in Indexes :
           Starts(p, i) => (~isPausedRef' /\ ~isAbortedRef') ]_vars

\* C13 witness: a pause was requested while the first task of two was in
\* flight; the call has succeeded, its entry is in the list shown, and the loop
\* is parked before the second task.
PausedInFlightRecorded ==
  \E p \in Subs :
    /\ pc[p] = "wait"
    /\ isPausedRef
    /\ batchState = "paused"
    /\ batchError = Null
    /\ lastSettled = [sub |-> p, index |-> 0, outcome |-> "success"]
    /\ currentTaskIndexRef = 1
    /\ Succeeded(batchResults, p, 0)
    /\ calls[p][2] = 0

\* C14: a resume request clears the pause flag, sets the batch state to
\* 'running' and the rate-limit notice to null, and leaves the cursor alone;
\* the turn of the loop that follows it (no pause and no abort request having
\* come in between) starts a generation call for the task at that cursor.
\* A resume request is made in this step.
ResumeStep == resumedAt' >= 0 /\ resumedAt' # resumedAt

ResumeEffects ==
  ResumeStep =>
    /\ batchState = "paused"
    /\ ~isPausedRef'
    /\ batchState' = "running"
    /\ batchError' = Null
    /\ currentTaskIndexRef' = currentTaskIndexRef
    /\ resumedAt' = currentTaskIndexRef

\* The loop takes its turn after a resume request.
TurnAfterResume ==
  resumedAt >= 0 /\ resumedAt' = -1 /\ ~isAbortedRef /\ ~isPausedRef'

Parked == pc[Current] = "wait"

RejectionKeepsResults ==
  \A p \in Subs :
    (p = submitted /\ pc[p] = "rejected") =>
      /\ batchResults = results[p]
      /\ error # NoMessage

\* C16: a sheet that lacks a country column or a hotel-name column, or has no
\* row with both fields non-blank, is rejected; a rejected submission has
\* invoked no loop and made no generation call, leaves the batch state 'idle'
\* and sets the error message; a run that has started has a task for every
\* row with both fields non-blank, and at least one.
Aliases(names) == {names[j] : j \in 1..Len(names)}

HasColumn(f, names) ==
  \E i \in 1..Len(f.headers) : LowerTrim(f.headers[i]) \in Aliases(names)

Column(f, names) ==
  f.headers[Min({i \in 1..Len(f.headers) : LowerTrim(f.headers[i]) \in Aliases(names)})]

CountryNames == <<"country", "land">>
HotelNames == <<"hotel name", "hotelname", "hotel">>

FullRows(f) ==
  {i \in 1..Len(f.rows) :
     /\ Trim(f.rows[i][Column(f, CountryNames)]) # ""
     /\ Trim(f.rows[i][Column(f, HotelNames)]) # ""}

Usable(f) ==
  /\ f.sheets = "data"
  /\ HasColumn(f, CountryNames)
  /\ HasColumn(f, HotelNames)
  /\ FullRows(f) # {}

RejectsUnusableFiles ==
  \A f \in Files :
    /\ ParseFile(f, 1).ok <=> Usable(f)
    /\ ParseFile(f, 1).ok => Len(ParseFile(f, 1).tasks) = Cardinality(FullRows(f))
    /\ ~ParseFile(f, 1).ok => Len(ParseFile(f, 1).message) > 0

RejectionStartsNoRun ==
  [][ /\ RejectsUnusableFiles
      /\ \A p \in Subs :
           (pc[p] = "reading" /\ pc'[p] = "rejected") =>
             /\ batchState' = "idle"
             /\ error' # NoMessage
             /\ calls' = calls
             /\ tasks'[p] = << >>
             /\ \A q \in Subs : pc'[q] \notin {"call", "wait"}
      /\ \A p \in Subs :
           (pc[p] = "reading" /\ pc'[p] \notin {"reading", "rejected"}) =>
             /\ Len(tasks'[p]) > 0
             /\ \A k \in 1..Len(tasks'[p]) : TaskValid(tasks'[p][k])
             /\ error' = NoMessage ]_vars

\* C16 witness: after a completed run, a sheet without the required columns
\* has been submitted and rejected.
RejectedForColumns ==
  \E p \in Subs :
    /\ p > 1
    /\ pc[p] = "rejected"
    /\ pc[p - 1] = "done"
    /\ error = <<"Could not find required columns.">>
    /\ batchState = "idle"

\* C17: every entry of the results list shown is either a Success entry with
\* a non-null output and no error message, or an Error entry with a null
\* output and a non-empty error message.
WellFormedEntry(e) ==
  \/ e.status = "Success" /\ e.output # NoRecord /\ e.error = NoMessage
  \/ e.status = "Error" /\ e.output = NoRecord /\ Len(e.error) > 0

EntriesWellFormed ==
  \A k \in 1..Len(batchResults) : WellFormedEntry(batchResults[k])

\* A single-entry generation has settled.
Answered == ~isLoading /\ request # NoRequest
Returned == Answered /\ error = NoMessage

\* C18: when the provider's response has no text, the error that reaches the
\* caller is the empty-response error, not the generation-failed error.
EmptyResponseReported ==
  (Answered /\ request.kind = "notext") =>
    /\ error = EmptyResponseMessage
    /\ error # GenerationFailedMessage

\* C19: the call fails with the rate-limit error exactly when the provider
\* has rejected the request with a quota/rate error; every other failure
\* (another provider error, a text that is no JSON) fails with the
\* generation-failed error, whatever its message contains.
RateLimitIffQuota ==
  Answered =>
    /\ (error = RateLimitMessage) <=> (request.kind = "error" /\ request.quota)
    /\ ( \/ request.kind = "error" /\ ~request.quota
         \/ request.kind = "text" /\ ~request.wellFormed )
         => error = GenerationFailedMessage

\* C20: a record returned by generateHotelContent has the eleven keys of
\* HotelData, numbers under Latitude and Longitude and strings under the
\* others; a text that parses to anything else makes the call fail.
TypeValid(v) ==
  /\ v.type = "object"
  /\ DOMAIN v.fields = Fields
  /\ \A f \in Fields : v.fields[f] = TypeOf(f)

ReturnedRecordValid ==
  /\ Returned => TypeValid(hotelData)
  /\ (Answered /\ request.kind = "text" /\ request.wellFormed
        /\ ~TypeValid(request.value)) => error # NoMessage

\* list a is list b or a beginning of it.
IsPrefix(a, b) ==
  /\ Len(a) <= Len(b)
  /\ \A k \in 1..Len(a) : a[k] = b[k]

\* C24: during a run the results list shown only grows: every step that is
\* not a new submission leaves the list a beginning of the list it shows
\* next, so earlier entries keep their position and content, and the list is
\* emptied only by a new submission.
ResultsOnlyGrow ==
  [][ /\ submitted' = submitted => IsPrefix(batchResults, batchResults')
      /\ (batchResults # << >> /\ batchResults' = << >>)
           => submitted' = submitted + 1 ]_vars

\* C24 witness: the second task of a run has been settled and the list shown
\* holds the entry of the first task followed by the entry of the second.
GrewByTwoEntries ==
  \E p \in Subs :
    /\ lastSettled.sub = p
    /\ lastSettled.index = 1
    /\ Len(batchResults) >= 2
    /\ batchResults[Len(batchResults) - 1].input.index = 0
    /\ batchResults[Len(batchResults)].input.index = 1

\* C25: whenever the loop of the run is parked or has ended, the progress
\* shown is (cursor, number of tasks of the run); a completed run shows
\* (total, total), and a run stopped by abort shows as current the number of
\* entries of its results list.
ProgressShowsCursor ==
  LET p == Current IN
  pc[p] \in {"wait", "done"} =>
    /\ batchProgress = [current |-> currentTaskIndexRef, total |-> Len(tasks[p])]
    /\ (pc[p] = "done" /\ batchState = "completed")
         => batchProgress = [current |-> Len(tasks[p]), total |-> Len(tasks[p])]
    /\ (pc[p] = "done" /\ isAbortedRef)
         => batchProgress.current = Len(results[p])

\* C29: after handleGenerate has finished, isLoading is false and exactly one
\* of the hotel record and the error message is non-null: a failed
\* generation leaves the record null and sets the message, a successful one
\* sets the record and leaves the message null.
RecordOrError ==
  Answered =>
    /\ ~isLoading
    /\ (hotelData # NoRecord) <=> (error = NoMessage)
    /\ generateHotelContent(request).ok <=> (hotelData # NoRecord)

CityNames == <<"city", "stadt", "ort">>

\* h is the header that holds a role with the aliases names in sheet f: a
\* header of the sheet whose lower-cased, trimmed text is one of the aliases,
\* and none only if the sheet has no such header.
HoldsRole(h, f, names) ==
  IF HasColumn(f, names)
    THEN h \in SetOf(f.headers) /\ LowerTrim(h) \in Aliases(names)
    ELSE h = Null

\* The first three headers of sheet f are aliases of country, hotel name and
\* city, in this order.
LikeCountryHotelCity(f) ==
  /\ Len(f.headers) >= 3
  /\ LowerTrim(f.headers[1]) \in Aliases(CountryNames)
  /\ LowerTrim(f.headers[2]) \in Aliases(HotelNames)
  /\ LowerTrim(f.headers[3]) \in Aliases(CityNames)
  /\ \A k \in 4..Len(f.headers) :
       LowerTrim(f.headers[k]) \notin
         Aliases(CountryNames) \cup Aliases(HotelNames) \cup Aliases(CityNames)

\* C26: when a sheet has been read, each of the three roles is held by a
\* header whose lower-cased, trimmed text is one of the role's aliases (by no
\* header only if the sheet has none); the sheet is accepted exactly if the
\* country and the hotel-name role are held, and each task takes its fields
\* from the columns that hold the roles.  A header row made of an alias of
\* country, of hotel name and of city, such as [Land, Hotelname, Stadt] or
\* [Country, Hotel Name, City] in any letter case and padding, gives the
\* roles to columns 1, 2 and 3.
HeadersResolved ==
  [][ \A p \in Subs :
        (pc[p] = "reading" /\ pc'[p] # "reading") =>
          LET f == sheet' IN
          /\ HoldsRole(countryHeader(f), f, CountryNames)
          /\ HoldsRole(hotelHeader(f), f, HotelNames)
          /\ HoldsRole(cityHeader(f), f, CityNames)
          /\ pc'[p] # "rejected"
               <=> (HasColumn(f, CountryNames) /\ HasColumn(f, HotelNames))
          /\ pc'[p] # "rejected" =>
               /\ Len(tasks'[p]) = 1
               /\ tasks'[p][1].country = f.rows[1][countryHeader(f)]
               /\ tasks'[p][1].hotelName = f.rows[1][hotelHeader(f)]
               /\ HasColumn(f, CityNames) =>
                    tasks'[p][1].city = f.rows[1][cityHeader(f)]
          /\ LikeCountryHotelCity(f) =>
               /\ pc'[p] # "rejected"
               /\ tasks'[p][1].country = ColumnCells[1]
               /\ tasks'[p][1].hotelName = ColumnCells[2]
               /\ tasks'[p][1].city = ColumnCells[3] ]_vars

\* C26 witness: a sheet with the header row [Land, Hotelname, Stadt] has been
\* read and its run has started with the task made of columns 1, 2 and 3.
GermanHeadersAccepted ==
  \E p \in Subs :
    /\ sheet # NoSheet
    /\ sheet.headers = <<"Land", "Hotelname", "Stadt">>
    /\ pc[p] = "call"
    /\ batchState = "running"
    /\ tasks[p][1].country = ColumnCells[1]
    /\ tasks[p][1].hotelName = ColumnCells[2]
    /\ tasks[p][1].city = ColumnCells[3]

\* The k-th of the rows of sheet f with both fields non-blank, in row order.
KthFullRow(f, k) ==
  CHOOSE m \in FullRows(f) : Cardinality({x \in FullRows(f) : x <= m}) = k

\* C27: when a sheet is accepted, the tasks of the run are the rows with both
\* fields non-blank, in row order, and progress.total is their number; a
\* sheet without such a row starts no run; and every generation call is made
\* for a task with a non-blank country and a non-blank hotel name.
BlankRowsRemoved ==
  [][ \A p \in Subs :
        /\ (pc[p] = "reading" /\ pc'[p] = "rejected") => FullRows(sheet') = {}
        /\ (pc[p] = "reading" /\ pc'[p] \notin {"reading", "rejected"}) =>
             /\ batchProgress'.total = Cardinality(FullRows(sheet'))
             /\ Len(tasks'[p]) = Cardinality(FullRows(sheet'))
             /\ \A k \in 1..Len(tasks'[p]) :
                  tasks'[p][k].originalData = sheet'.rows[KthFullRow(sheet', k)]
        /\ \A i \in Indexes :
             Starts(p, i) =>
               /\ i < Len(tasks'[p])
               /\ Trim(tasks'[p][i + 1].country) # ""
               /\ Trim(tasks'[p][i + 1].hotelName) # ""
               /\ batchProgress'.total = Cardinality(FullRows(sheet')) ]_vars

\* C27 witness: of a sheet with a full row, a row without hotel name and
\* another full row, the two tasks of the full rows have been run to the end
\* in row order, with a progress of (2, 2).
BlankRowSkipped ==
  \E p \in Subs :
    /\ sheet # NoSheet
    /\ Len(sheet.rows) = 3
    /\ sheet.rows[2]["Hotel"] = ""
    /\ sheet.rows[1]["Hotel"] = "Hotel B"
    /\ sheet.rows[3]["Hotel"] = "Hotel A"
    /\ pc[p] = "done"
    /\ batchProgress = [current |-> 2, total |-> 2]
    /\ Len(results[p]) = 2
    /\ results[p][1].input.hotelName = "Hotel B"
    /\ results[p][2].input.hotelName = "Hotel A"

\* A download request writes a file in this step.
Writes == exported' # NoExport /\ exported' # exported

\* C28: a download request writes a file only when the results list is not
\* empty, whatever the batch state; the file then holds the entries of the
\* list shown, all of them and in the order of the list: the list itself in
\* the JSON form, and in the tabular form one row per entry, with the entry's
\* status, error text and input cells.  The buttons are offered whenever the
\* list is not empty.
DownloadExportsEntries ==
  /\ [](Len(batchResults) > 0 => DownloadOffered)
  /\ [][ Writes =>
           /\ Len(batchResults) > 0
           /\ batchResults' = batchResults
           /\ batchState' = batchState
           /\ exported'.format = "json" => exported'.entries = batchResults
           /\ exported'.format = "xlsx" =>
                /\ Len(exported'.rows) = Len(batchResults)
                /\ \A k \in 1..Len(batchResults) :
                     LET row == exported'.rows[k]
                         e   == batchResults[k]
                     IN  /\ row["Status"] = Str(<<e.status>>)
                         /\ row["Error"] = Str(e.error)
                         /\ row["Country"] = Str(Text(e.input.country))
                         /\ row["Hotel"] = Str(Text(e.input.hotelName)) ]_vars

\* C28 witness: a run of two tasks was stopped by abort after the first task
\* had failed, and its one entry has been downloaded in the tabular form.
PartialResultsExported ==
  /\ batchState = "aborted"
  /\ exported.format = "xlsx"
  /\ Len(batchResults) = 1
  /\ Len(tasks[1]) = 2
  /\ Len(exported.rows) = 1
  /\ exported.rows[1]["Status"] = Str(<<"Error">>)

\* The rows of the tabular file written, when one has been written.
ExportedRows == IF exported.format = "xlsx" THEN exported.rows ELSE << >>

\* C22: every row of the tabular export holds, for its entry, the status and,
\* when the entry has a record, the external identifier, the phone, the
\* latitude and the longitude (0 included) and both descriptions as they are
\* in the record; and the address cell is the address cell of no record with
\* another street, postal code or town, so that the parts can be read back.
ExportRoundTrip ==
  \A k \in 1..Len(ExportedRows) :
    LET row == ExportedRows[k]
        e   == batchResults[k]
    IN  /\ row["Status"] = Str(<<e.status>>)
        /\ e.output # NoRecord =>
             /\ row["GIATA Code"] = e.output.values["GIATA_Code"]
             /\ row["Phone"] = e.output.values["Telefon"]
             /\ row["Latitude"] = e.output.values["Latitude"]
             /\ row["Longitude"] = e.output.values["Longitude"]
             /\ row["Description DE"] = e.output.values["Beschreibung_DE"]
             /\ row["Description FR"] = e.output.values["Beschreibung_FR"]
             /\ \A o \in HotelRecords :
                  row["Address"] = Str(AddressOf(o)) =>
                    \A f \in {"Adresse_Strasse", "PLZ", "Ort"} :
                      o.values[f] = e.output.values[f]

\* C23: every key of a task's original input row is a key of the task's
\* exported row, with the value it has in the original row.
OriginalColumnsKept ==
  \A k \in 1..Len(ExportedRows) :
    LET row      == ExportedRows[k]
        original == batchResults[k].input.originalData
    IN  \A key \in DOMAIN original :
          /\ key \in DOMAIN row
          /\ row[key] = Str(Text(original[key]))

\* The lookup for the task at index i of submission p gives null.
NoCodeFor(p, i) ==
  /\ i < Len(tasks[p])
  /\ fetchGiataCode(tasks[p][i + 1].hotelName, tasks[p][i + 1].country) = Null

\* C21: in the App with the lookup, when fetchGiataCode gives null for a
\* task of a run, an Error entry for the task is appended and shown, the
\* cursor advances by one, no generation call is made for the task, then or
\* ever, and the failure pauses nothing: pause flag, notice and a batch state
\* other than 'paused' stay as they are unless the run ends.  When it gives
\* null for a request of the form, the error message is set, the loading flag
\* is cleared, no generation call is made and no hotel record is shown.
LookupFailureIsTaskError ==
  /\ [](\A p \in Subs : \A i \in Indexes :
          NoCodeFor(p, i) => calls[p][i + 1] = 0 /\ sent[p][i + 1] = 0)
  /\ [][ \A p \in Subs :
           (pc[p] = "lookup" /\ pc'[p] # "lookup" /\ NoCodeFor(p, currentIndex[p])) =>
             /\ results'[p] =
                  Append(results[p],
                         [input |-> tasks[p][currentIndex[p] + 1], output |-> NoRecord,
                          status |-> "Error", error |-> GiataNotFoundMessage])
             /\ batchResults' = results'[p]
             /\ currentTaskIndexRef' = currentTaskIndexRef + 1
             /\ calls' = calls
             /\ pc'[p] # "call"
             /\ isPausedRef' = isPausedRef
             /\ batchError' = batchError
             /\ batchState' = "paused" => batchState = "paused" ]_vars
  /\ [][ ( /\ isLoading
           /\ request.kind = "lookup"
           /\ request' # request
           /\ fetchGiataCode(request.hotelName, request.country) = Null ) =>
             /\ error' = GiataNotFoundFor(request.hotelName)
             /\ ~isLoading'
             /\ hotelData' = NoRecord
             /\ request'.kind = "notFound" ]_vars

\* C21 witness: a run of two tasks, the first with the number 0 as hotel
\* name, has completed: the first task has an Error entry with the message of
\* the failed lookup and has had no generation call, the second has succeeded.
LookupFailedThenNextSucceeded ==
  \E p \in Subs :
    /\ withLookup
    /\ pc[p] = "done"
    /\ batchState = "completed"
    /\ Len(results[p]) = 2
    /\ results[p][1].status = "Error"
    /\ results[p][1].error = GiataNotFoundMessage
    /\ results[p][1].input.hotelName = NumberZero
    /\ calls[p][1] = 0
    /\ results[p][2].status = "Success"
    /\ calls[p][2] = 1

\* C31: within a run the cursor is between 0 and the number of tasks; a step
\* that is no new submission never lowers it and changes it only when the
\* generation call for the task at the cursor ends with a success or with a
\* failure other than the rate limit, and then by exactly one; and every
\* generation call that starts is for the task at the cursor.
CursorMovesByOne ==
  /\ [](0 <= currentTaskIndexRef /\ currentTaskIndexRef <= Len(tasks[Current]))
  /\ [][ submitted' = submitted =>
           /\ currentTaskIndexRef' >= currentTaskIndexRef
           /\ currentTaskIndexRef' # currentTaskIndexRef =>
                /\ currentTaskIndexRef' = currentTaskIndexRef + 1
                /\ Settles(Current)
                /\ currentIndex[Current] = currentTaskIndexRef
                /\ lastSettled' = [sub |-> Current, index |-> currentTaskIndexRef,
                                   outcome |-> lastSettled'.outcome]
                /\ lastSettled'.outcome \in {"success", "failed"}
           /\ (Settles(Current) /\ lastSettled'.outcome = "rateLimited")
                => currentTaskIndexRef' = currentTaskIndexRef
           /\ \A p \in Subs : \A i \in Indexes :
                Starts(p, i) => i = currentTaskIndexRef' /\ i < Len(tasks'[p]) ]_vars

\* C31 witness: in a run of MaxRows tasks the first task has failed with the
\* rate limit, was called again and has succeeded, and the second has failed
\* otherwise: the cursor is at the end of the list.
CursorAtEndAfterRetry ==
  \E p \in Subs :
    /\ Len(tasks[p]) = MaxRows
    /\ currentTaskIndexRef = MaxRows
    /\ rateFails[p][1] = 1
    /\ calls[p][1] = 2
    /\ Succeeded(results[p], p, 0)
    /\ lastSettled = [sub |-> p, index |-> MaxRows - 1, outcome |-> "failed"]

\* The generation call of loop p settles in this step, whatever its outcome.
CallSettles(p) == pc[p] = "call" /\ sent'[p] # sent[p]

\* An abort request changes nothing but the abort flag, and the batch state
\* becomes 'aborted' only in a step of the loop: a settled call followed by
\* the loop top, or a wake of the pause wait.
AbortSeenByLoopOnly ==
  /\ (isAbortedRef' /\ ~isAbortedRef) =>
       UNCHANGED <<batchState, batchResults, batchProgress, currentTaskIndexRef,
                   pc, results, calls>>
  /\ (batchState' = "aborted" /\ batchState # "aborted") =>
       /\ isAbortedRef
       /\ pc[Current] \in {"call", "wait"}
       /\ pc'[Current] = "done"

\* C32: an abort request takes effect only at the loop top and at a wake of
\* the pause wait; a call that is in flight when abort is requested still
\* has its outcome appended to the results list and the cursor advanced, and
\* then the loop stops.
AbortLetsCallFinish ==
  [][ /\ AbortSeenByLoopOnly
      /\ \A p \in Subs :
           (CallSettles(p) /\ isAbortedRef) =>
             /\ Len(results'[p]) = Len(results[p]) + 1
             /\ batchResults' = results'[p]
             /\ currentTaskIndexRef' = currentTaskIndexRef + 1
             /\ pc'[p] = "done" ]_vars

\* C32, amended: the same, except that a call that ends with the rate limit
\* appends nothing and leaves the cursor, as it does without an abort.
AbortLetsCallFinishUnlessRateLimited ==
  [][ /\ AbortSeenByLoopOnly
      /\ \A p \in Subs :
           (CallSettles(p) /\ isAbortedRef) =>
             /\ pc'[p] = "done"
             /\ batchResults' = results'[p]
             /\ IF lastSettled'.outcome = "rateLimited"
                  THEN /\ results'[p] = results[p]
                       /\ currentTaskIndexRef' = currentTaskIndexRef
                  ELSE /\ Len(results'[p]) = Len(results[p]) + 1
                       /\ results'[p][Len(results'[p])].input.index = currentIndex[p]
                       /\ results'[p][Len(results'[p])].status =
                            (IF lastSettled'.outcome = "success" THEN "Success" ELSE "Error")
                       /\ currentTaskIndexRef' = currentTaskIndexRef + 1 ]_vars

\* C32 witness: abort was requested while the call for the first of two
\* tasks was in flight; the call has succeeded, its entry is in the list, the
\* cursor is at the second task, and the run has stopped without a call for
\* the second task.
InFlightEntryKeptOnAbort ==
  \E p \in Subs :
    /\ batchState = "aborted"
    /\ pc[p] = "done"
    /\ abortCursor = 0
    /\ currentTaskIndexRef = 1
    /\ Len(tasks[p]) = 2
    /\ calls[p][2] = 0
    /\ lastSettled = [sub |-> p, index |-> 0, outcome |-> "success"]
    /\ results[p][Len(results[p])].status = "Success"
    /\ batchResults = results[p]


\* ---------------------------------------------------------------- C33
FinalStates == {"aborted", "completed"}

Blank(f) == Trim(f.country) = "" \/ Trim(f.hotelName) = ""

\* C34: a single-entry generation starts only at a submit of the form with
\* a non-blank country and a non-blank hotel name; a submit with a blank
\* country or a blank hotel name starts none and leaves the loading flag,
\* the hotel record and the error message as they are.
BlankFormStartsNothing ==
  /\ [][ (~isLoading /\ isLoading') => ~Blank(form') ]_vars
  /\ [][ (form' # form /\ Blank(form'))
           => UNCHANGED <<isLoading, hotelData, error, request>> ]_vars

\* C34 witness: the form was submitted with a blank country after a
\* generation had produced a record, and the record is still shown.
BlankSubmitKeepsRecord ==
  /\ Trim(form.country) = ""
  /\ form.hotelName = "Hotel A"
  /\ hotelData # NoRecord
  /\ ~isLoading

\* ---------------------------------------------------------------- C35
\* C35 as stated: whenever the loop is parked in the pause wait the batch
\* state is 'paused', whenever the batch state is 'paused' the pause flag is
\* set, and the loop is never parked while the state is 'running'.
ParkedShowsPaused ==
  /\ Parked => batchState = "paused"
  /\ batchState = "paused" => isPausedRef
  /\ ~(Parked /\ batchState = "running")

\* C35 amended: whenever the loop is parked in the pause wait and the pause
\* flag is set, the batch state is 'paused'; whenever the batch state is
\* 'paused' the pause flag is set; the loop is parked while the state is not
\* 'paused' only from a resume request to the next tick of the 200 ms timer,
\* with the pause flag cleared and the state 'running'.
ParkedAndFlaggedShowsPaused ==
  /\ (Parked /\ isPausedRef) => (batchState = "paused" /\ ResumeOffered)
  /\ batchState = "paused" => isPausedRef
  /\ (Parked /\ batchState # "paused")
       => (batchState = "running" /\ ~isPausedRef /\ resumedAt >= 0)

\* C35 witness: the loop is parked after a pause request made while a call
\* was in flight, with no rate limit and no abort request.
ParkedByPauseRequest ==
  /\ Parked
  /\ isPausedRef
  /\ batchState = "paused"
  /\ batchError = Null
  /\ ~isAbortedRef
  /\ Len(results[Current]) > 0

\* ---------------------------------------------------------------- C36
\* C36: the rate-limit notice is non-null only while the batch state is
\* 'paused', and it is set only by a generation call that fails with the rate
\* limit.
NoticeOnlyWhilePaused ==
  /\ [](batchError # Null => batchState = "paused")
  /\ [][ (batchError = Null /\ batchError' # Null)
           => \E p \in Subs : /\ CallSettles(p)
                              /\ rateFails'[p] # rateFails[p]
                              /\ batchError' = RateLimitNotice ]_vars

\* ---------------------------------------------------------------- C37
\* The client has thrown its rate-limit error for the answer a.
ThrowsRateLimit(a) ==
  ~(a.kind = "text" /\ a.wellFormed) /\ Includes(CaughtMessage(a), <<"4", "2", "9">>)

LookupFails(p) == pc[p] = "lookup" /\ lastSettled' # lastSettled

LastEntry(p) == results'[p][Len(results'[p])]

\* C37: the batch loop's substring test recognises the error of a failed
\* generateHotelContent call as a rate limit exactly when the client threw
\* it as its rate-limit error; the generation-failed error and the
\* GIATA-not-found error are never recognised.  In a run: a call that the
\* client ends with its rate-limit error is handled as a rate limit (pause,
\* notice, no entry), a call it ends with the generation-failed error and a
\* lookup without a code are recorded as Error entries and pause nothing.
SignalsAgree ==
  /\ \A a \in ClientAnswers :
       LET r == generateHotelContent(a) IN
       ~r.ok => (IsRateLimitError(r) <=> ThrowsRateLimit(a))
  /\ ~IsRateLimitError([ok |-> FALSE, message |-> GenerationFailedMessage])
  /\ ~IsRateLimitError([ok |-> FALSE, message |-> GiataNotFoundMessage])
  /\ [][ \A p \in Subs :
           /\ (CallSettles(p) /\ lastSettled'.outcome = "rateLimited") =>
                /\ rateFails'[p] # rateFails[p]
                /\ results'[p] = results[p]
                /\ isPausedRef'
                /\ batchError' = RateLimitNotice
           /\ (CallSettles(p) /\ lastSettled'.outcome = "failed") =>
                /\ rateFails' = rateFails
                /\ Len(results'[p]) = Len(results[p]) + 1
                /\ LastEntry(p).status = "Error"
                /\ LastEntry(p).error = GenerationFailedMessage
                /\ isPausedRef' = isPausedRef
                /\ batchError' = batchError
           /\ LookupFails(p) =>
                /\ rateFails' = rateFails
                /\ Len(results'[p]) = Len(results[p]) + 1
                /\ LastEntry(p).status = "Error"
                /\ LastEntry(p).error = GiataNotFoundMessage
                /\ isPausedRef' = isPausedRef
                /\ batchError' = batchError ]_vars

\* C37 witness: in one run a lookup has given no code and the generation
\* call for the next task has been answered with the rate limit: the first
\* is recorded as an Error entry, the second has parked the loop.
NotFoundRecordedRateLimitParked ==
  \E p \in Subs :
    /\ pc[p] = "wait"
    /\ Len(results[p]) = 1
    /\ results[p][1].error = GiataNotFoundMessage
    /\ lastSettled = [sub |-> p, index |-> 1, outcome |-> "rateLimited"]
    /\ rateFails[p][2] = 1
    /\ batchError = RateLimitNotice
    /\ batchState = "paused"

=============================================================================
